---- MODULE Spec2Model ----
(***************************************************************************)
(* Model of the image bulk space saver.                                    *)
(*                                                                         *)
(*   ImageCollector (collector script)  walks a directory tree, probes     *)
(*     every image file and saves the catalog as JSON;                     *)
(*   DynamicCompressImage (DynamicCompressImage.js) reads the catalog and  *)
(*     runs every record it selects through resize / re-encode / write.    *)
(*                                                                         *)
(* The codec (sharp) and the file system are the environment: the size of  *)
(* every buffer the codec returns and the failure of every codec or file   *)
(* system call are chosen nondeterministically.                            *)
(***************************************************************************)
EXTENDS Integers, Sequences, FiniteSets, TLC

\* ------------------------------------------------------------------ bounds
\* Number of directory entries below the scanned root.
MaxEntries == 3
\* formatSize is called on every byte count within this distance of a
\* threshold.
FormatOffset == 12

\* --------------------------------------------------------- program constants
\* new DynamicCompressImage(250 * 1024)
MaxSizeBytes == 256000
\* the threshold shouldCompress compares the parsed KB figure with
ShouldCompressKB == 250
\* if (width > 1500)
ResizeTriggerWidth == 1500
\* .resize({ width: 1400, withoutEnlargement: true })
ResizeTargetWidth == 1400
\* formatSize: size < 1024
KiB == 1024
\* formatSize: size < 1024 * 1024
MiB == 1048576
\* formatSize: size < 1024 * 1024 * 1024
GiB == 1073741824

\* ------------------------------------------------------------- extensions
\* An extension is the sequence of its characters, so that toLowerCase is
\* computed character by character.
DotJpg  == <<".", "j", "p", "g">>
DotJpeg == <<".", "j", "p", "e", "g">>
DotPng  == <<".", "p", "n", "g">>
DotJPG  == <<".", "J", "P", "G">>
DotJPEG == <<".", "J", "P", "E", "G">>
DotPNG  == <<".", "P", "N", "G">>
DotTxt  == <<".", "t", "x", "t">>

\* this.imageExtensions = ['.jpg', '.jpeg', '.png']
imageExtensions == {DotJpg, DotJpeg, DotPng}

LowerChar(c) ==
    CASE c = "J" -> "j"
      [] c = "P" -> "p"
      [] c = "G" -> "g"
      [] c = "E" -> "e"
      [] c = "N" -> "n"
      [] OTHER   -> c

\* String.prototype.toLowerCase
toLowerCase(s) == [i \in 1..Len(s) |-> LowerChar(s[i])]

\* isImage comparing the extension as written, without toLowerCase
isImage_CaseSensitive(ext) == ext \in imageExtensions

\* ImageCollector.isImage
isImage(ext) == toLowerCase(ext) \in imageExtensions

\* ------------------------------------------------------------ size strings
\* Number.prototype.toFixed(2) of num / den, as a count of hundredths; a tie
\* goes to the larger value.
ToFixed2(num, den) ==
    (num \div den) * 100 + ((num % den) * 100 + den \div 2) \div den

\* A formatted size is the text "<whole>[.<frac>] <unit>"; frac is absent
\* (the empty sequence) for the Bytes form and two digits otherwise.
Formatted(h, u) == [whole |-> h \div 100, frac |-> <<(h % 100) \div 10, h % 10>>, unit |-> u]

\* ImageCollector.formatSize
formatSize(size) ==
    IF size < KiB THEN [whole |-> size, frac |-> <<>>, unit |-> "Bytes"]
    ELSE IF size < MiB THEN Formatted(ToFixed2(size, KiB), "KB")
    ELSE IF size < GiB THEN Formatted(ToFixed2(size, MiB), "MB")
    ELSE Formatted(ToFixed2(size, GiB), "GB")

\* formatSize of the compressor with the first threshold included in Bytes
DynamicCompressImage_formatSize_Inclusive(size) ==
    IF size <= KiB THEN [whole |-> size, frac |-> <<>>, unit |-> "Bytes"]
    ELSE IF size < MiB THEN Formatted(ToFixed2(size, KiB), "KB")
    ELSE IF size < GiB THEN Formatted(ToFixed2(size, MiB), "MB")
    ELSE Formatted(ToFixed2(size, GiB), "GB")

\* DynamicCompressImage.formatSize
DynamicCompressImage_formatSize(size) ==
    IF size < KiB THEN [whole |-> size, frac |-> <<>>, unit |-> "Bytes"]
    ELSE IF size < MiB THEN Formatted(ToFixed2(size, KiB), "KB")
    ELSE IF size < GiB THEN Formatted(ToFixed2(size, MiB), "MB")
    ELSE Formatted(ToFixed2(size, GiB), "GB")

\* sizeStr.includes('KB'): of the four unit labels only "KB" contains it
includesKB(sizeStr) == sizeStr.unit = "KB"

\* parseFloat(sizeStr.replace(' KB', '').trim()) > n, on the decimal text
parseFloatGT(sizeStr, n) ==
    \/ sizeStr.whole > n
    \/ sizeStr.whole = n /\ \E i \in 1..Len(sizeStr.frac) : sizeStr.frac[i] > 0

\* DynamicCompressImage.shouldCompress
shouldCompress(sizeStr) ==
    IF includesKB(sizeStr) THEN parseFloatGT(sizeStr, ShouldCompressKB)
    ELSE TRUE


\* ------------------------------------------------------------ the file tree
Root  == 0
Nodes == 1..MaxEntries

\* A directory entry: what statSync, readdirSync and the metadata probe
\* answer for it.  statOK = FALSE: statSync throws; listOK = FALSE (a
\* directory): readdirSync throws; probeOK = FALSE: sharp(..).metadata()
\* rejects.  width is {} when the probe reports none.
Entry(k, e, sz, w, st, ls, pr) ==
    [kind |-> k, ext |-> e, size |-> sz, width |-> w,
     statOK |-> st, listOK |-> ls, probeOK |-> pr]

ImageFile(e, sz, w) == Entry("file", e, sz, w, TRUE, TRUE, TRUE)

ReadableDir   == Entry("dir",   <<>>,   4096,   {}, TRUE,  TRUE,  TRUE)
UnreadableDir == Entry("dir",   <<>>,   4096,   {}, TRUE,  FALSE, TRUE)
BrokenEntry   == Entry("file",  DotJpg, 300000, {}, FALSE, TRUE,  TRUE)
SpecialFile   == Entry("other", DotPng, 300000, {}, TRUE,  TRUE,  TRUE)
TextFile      == Entry("file",  DotTxt, 300000, {}, TRUE,  TRUE,  TRUE)
CorruptImage  == Entry("file",  DotPng, 300000, {}, TRUE,  TRUE,  FALSE)
PlainImage    == ImageFile(DotJpg, 300000, {2000})

\* Sizes on disk: a sub-kilobyte file, one within the budget, one just over
\* the budget, one clearly over it, and one in the MB range.
FileSizes  == {500, 200000, 256003, 300000, 2097152}
FileWidths == {{}, {1500}, {2000}}
FileExts   == {DotJpg, DotJpeg, DotPng, DotJPG, DotJPEG, DotPNG}

StructureEntries ==
    {ReadableDir, UnreadableDir, BrokenEntry, SpecialFile, TextFile,
     CorruptImage, PlainImage}
ContextEntries == {ReadableDir, TextFile, PlainImage}
ContentEntries == {ImageFile(e, sz, w) : e \in FileExts, sz \in FileSizes, w \in FileWidths}

\* Every entry lies in the root or in a directory listed before it.
ParentsOK(ents, par) ==
    \A n \in Nodes :
        IF par[n] = Root THEN TRUE ELSE par[n] < n /\ ents[par[n]].kind = "dir"

\* The trees scanned: either every entry is one of the structural kinds, or
\* one entry is an image file of any extension, size and width among
\* directories, text files and plain images.
TreeEntries ==
    [Nodes -> StructureEntries]
    \cup {[c EXCEPT ![n] = e] : c \in [Nodes -> ContextEntries], n \in Nodes, e \in ContentEntries}

\* readdirSync(dir): the entries of dir, in listing order
RECURSIVE ChildrenFrom(_, _, _)
ChildrenFrom(par, d, n) ==
    IF n > MaxEntries THEN <<>>
    ELSE (IF par[n] = d THEN <<n>> ELSE <<>>) \o ChildrenFrom(par, d, n + 1)

\* ------------------------------------------------------------------- state
VARIABLES
    tree,      \* node -> Entry
    parent,    \* node -> the directory holding it
    disk,      \* node -> [content, size]: the file at that path
    opened,    \* paths opened for writing so far
    phase,     \* "init", "scan", "scanAborted", "scanned", "saved", "pass", "done"
    stack,     \* getImagesFromDirectory call stack: frames [dir, pos]
    fileList,  \* the list getImagesFromDirectory fills
    images,    \* the parsed imagePaths.json
    idx,       \* position of the for-of loop of compressImagesFromJson
    pc,        \* where compressImage stands for images[idx]
    data,      \* compressImage's buffer: <<>> or <<its length>>
    ops,       \* codec operations applied to the current record: [op, out]
    log,       \* console output of the pass: [path, msg, stage]
    result,    \* the promise compressImagesFromJson returns: "pending" or "fulfilled"
    fmt        \* a formatSize call under test: its argument and what each copy returned

vars == <<tree, parent, fmt, result, disk, opened, phase, stack, fileList, images, idx, pc, data, ops, log>>

scanVars == <<stack, fileList>>
passVars == <<images, idx, pc, data, ops, log, disk, opened>>

readdirSync(d) == ChildrenFrom(parent, d, 1)

Init ==
    /\ tree \in TreeEntries
    /\ parent \in [Nodes -> {Root} \cup Nodes]
    /\ ParentsOK(tree, parent)
    /\ disk = [n \in Nodes |-> [content |-> "original", size |-> tree[n].size]]
    /\ opened = {}
    /\ phase = "init"
    /\ stack = <<>>
    /\ fileList = <<>>
    /\ images = <<>>
    /\ idx = 0
    /\ pc = "idle"
    /\ data = <<>>
    /\ ops = <<>>
    /\ log = <<>>
    /\ result = "pending"
    /\ fmt = <<>>

\* --------------------------------------------------------------- the scan
Top == stack[Len(stack)]
TopEntries == readdirSync(Top.dir)
AtEntry == phase = "scan" /\ stack # <<>> /\ Top.pos <= Len(TopEntries)
Current == TopEntries[Top.pos]
Advance(s) == [s EXCEPT ![Len(s)].pos = @ + 1]

\* An exception inside getImagesFromDirectory: neither readdirSync nor
\* statSync is inside a try block, so the promise of every pending call
\* rejects, collectAndSaveImages rejects and its .then callback never runs.
Throw ==
    /\ phase' = "scanAborted"
    /\ stack' = <<>>
    /\ UNCHANGED <<fileList, tree, parent, fmt, result, passVars>>

\* collectAndSaveImages: getImagesFromDirectory(this.directory)
StartScan ==
    /\ phase = "init"
    /\ phase' = "scan"
    /\ stack' = <<[dir |-> Root, pos |-> 1]>>
    /\ UNCHANGED <<fileList, tree, parent, fmt, result, passVars>>

\* fs.statSync(filePath) throws
StatFails ==
    /\ AtEntry
    /\ ~tree[Current].statOK
    /\ Throw

\* stat.isDirectory(): the recursive call, whose readdirSync succeeds
EnterDirectory ==
    /\ AtEntry
    /\ tree[Current].statOK /\ tree[Current].kind = "dir" /\ tree[Current].listOK
    /\ stack' = Append(Advance(stack), [dir |-> Current, pos |-> 1])
    /\ UNCHANGED <<phase, fileList, tree, parent, fmt, result, passVars>>

\* stat.isDirectory(): the recursive call, whose readdirSync throws
ReaddirFails ==
    /\ AtEntry
    /\ tree[Current].statOK /\ tree[Current].kind = "dir" /\ ~tree[Current].listOK
    /\ Throw

\* the record pushed for an image file
Record(n) ==
    [path        |-> n,
     size        |-> formatSize(disk[n].size),
     sizeInBytes |-> disk[n].size,
     extension   |-> tree[n].ext,
     width       |-> tree[n].width]

IsImageFile(n) == tree[n].statOK /\ tree[n].kind = "file" /\ isImage(tree[n].ext)

\* stat.isFile() && this.isImage(file), metadata() resolves
CollectImage ==
    /\ AtEntry
    /\ IsImageFile(Current) /\ tree[Current].probeOK
    /\ fileList' = Append(fileList, Record(Current))
    /\ stack' = Advance(stack)
    /\ UNCHANGED <<phase, tree, parent, fmt, result, passVars>>

\* the probe outside any try block: its rejection leaves the scan
ProbeFails_Throws ==
    /\ AtEntry
    /\ IsImageFile(Current) /\ ~tree[Current].probeOK
    /\ Throw

\* stat.isFile() && this.isImage(file), metadata() rejects: caught, logged
ProbeFails ==
    /\ AtEntry
    /\ IsImageFile(Current) /\ ~tree[Current].probeOK
    /\ stack' = Advance(stack)
    /\ UNCHANGED <<phase, fileList, tree, parent, fmt, result, passVars>>

\* neither a directory nor an image file
IgnoreEntry ==
    /\ AtEntry
    /\ tree[Current].statOK /\ tree[Current].kind # "dir" /\ ~IsImageFile(Current)
    /\ stack' = Advance(stack)
    /\ UNCHANGED <<phase, fileList, tree, parent, fmt, result, passVars>>

\* return fileList: the call returns to its caller, the outermost one to
\* collectAndSaveImages
ReturnFromDirectory ==
    /\ phase = "scan" /\ stack # <<>> /\ Top.pos > Len(TopEntries)
    /\ stack' = SubSeq(stack, 1, Len(stack) - 1)
    /\ phase' = IF Len(stack) = 1 THEN "scanned" ELSE phase
    /\ UNCHANGED <<fileList, tree, parent, fmt, result, passVars>>

\* imagesToSave: every record without its sizeInBytes
imagesToSave(list) ==
    [i \in 1..Len(list) |->
        [path |-> list[i].path, size |-> list[i].size,
         extension |-> list[i].extension, width |-> list[i].width]]

\* collectAndSaveImages after the scan: imagePaths.json is written
SaveImages ==
    /\ phase = "scanned"
    /\ phase' = "saved"
    /\ images' = imagesToSave(fileList)
    /\ UNCHANGED <<scanVars, tree, parent, fmt, result, idx, pc, data, ops, log, disk, opened>>


\* ------------------------------------------------------ the compression pass
\* Lengths of the buffers sharp may return: one within the budget and one
\* over it (and over some of the files it is made from).
CodecSizes == {200000, 310000}

IsJpeg(extension) == extension = DotJpg \/ extension = DotJpeg
IsPng(extension)  == extension = DotPng

\* the branch taken inside the first  if (data.length > this.maxSize)
FirstStage(extension) ==
    IF IsJpeg(extension) THEN "jpeg80"
    ELSE IF IsPng(extension) THEN "png9"
    ELSE "none"

\* the nested if with its JPEG branch only
SecondStage_JpegOnly(extension) ==
    IF IsJpeg(extension) THEN "jpeg60" ELSE "none"

\* the branch taken inside the nested  if (data.length > this.maxSize)
SecondStage(extension) ==
    IF IsJpeg(extension) THEN "jpeg60"
    ELSE IF IsPng(extension) THEN "png9"
    ELSE "none"

OverBudget(len) == len > MaxSizeBytes

\* where compressImage goes once the first toBuffer has resolved
AfterToBuffer(extension, len) ==
    IF OverBudget(len) /\ FirstStage(extension) # "none" THEN "encode1" ELSE "toFile"

\* the nested if without its test of data.length
AfterEncode1_Unconditional(extension, len) ==
    IF SecondStage(extension) # "none" THEN "encode2" ELSE "toFile"

\* where compressImage goes once the first re-encode has resolved
AfterEncode1(extension, len) ==
    IF OverBudget(len) /\ SecondStage(extension) # "none" THEN "encode2" ELSE "toFile"

\* the test written with >=
WiderThanTrigger_Inclusive(width) == \E w \in width : w >= ResizeTriggerWidth

\* if (width > 1500)
WiderThanTrigger(width) == \E w \in width : w > ResizeTriggerWidth

InPass  == phase = "pass"
AtLoop  == InPass /\ pc = "loop"
HasNext == idx <= Len(images)
\* the loop walking the catalog from its end
image_Reversed == images[Len(images) + 1 - idx]
\* for (const image of images)
image   == images[idx]

LogEntry(p, m, st) == [path |-> p, msg |-> m, stage |-> st]

\* the .then callback: compressImagesFromJson parses imagePaths.json
ReadJson ==
    /\ phase = "saved"
    /\ phase' = "pass"
    /\ idx' = 1
    /\ pc' = "loop"
    /\ UNCHANGED <<scanVars, tree, parent, fmt, result, images, data, ops, log, disk, opened>>

\* the else branch of  if (this.shouldCompress(image.size))
SkipImage ==
    /\ AtLoop /\ HasNext
    /\ ~shouldCompress(image.size)
    /\ log' = Append(log, LogEntry(image.path, "Skipped", "none"))
    /\ idx' = idx + 1
    /\ UNCHANGED <<scanVars, tree, parent, fmt, result, phase, images, pc, data, ops, disk, opened>>

\* this.compressImage(image) is called
BeginCompress ==
    /\ AtLoop /\ HasNext
    /\ shouldCompress(image.size)
    /\ pc' = "toBuffer"
    /\ UNCHANGED <<scanVars, tree, parent, fmt, result, phase, images, idx, data, ops, log, disk, opened>>

\* the for-of loop is exhausted
FinishPass ==
    /\ AtLoop /\ ~HasNext
    /\ phase' = "done"
    /\ pc' = "idle"
    /\ result' = "fulfilled"
    /\ UNCHANGED <<scanVars, tree, parent, fmt, images, idx, data, ops, log, disk, opened>>

\* the options each codec operation is called with
ResizeRequest == [width |-> ResizeTargetWidth, withoutEnlargement |-> TRUE]
Request(name) ==
    CASE name = "resize" -> ResizeRequest
      [] name = "jpeg80" -> [quality |-> 80]
      [] name = "jpeg60" -> [quality |-> 60]
      [] name = "png9"   -> [compressionLevel |-> 9]
      [] OTHER           -> <<>>

\* sharp's resize: the width of the result for a source of width src ({} when
\* unknown); withoutEnlargement leaves a narrower source as it is
ResizedWidth(src, req) ==
    {IF req.withoutEnlargement /\ w <= req.width THEN w ELSE req.width : w \in src}

\* One codec stage resolves with a buffer of length out and width w.
Stage(name, out, w, next) ==
    /\ data' = <<out>>
    /\ ops' = Append(ops, [op |-> name, req |-> Request(name), out |-> out, width |-> w])
    /\ pc' = next
    /\ UNCHANGED <<scanVars, tree, parent, fmt, result, phase, images, idx, log, disk, opened>>

\* the width of the buffer compressImage holds
BufferWidth == ops[Len(ops)].width

\* sharp(imagePath).resize({ width: 1400, withoutEnlargement: true }).toBuffer()
Resize ==
    /\ InPass /\ pc = "toBuffer"
    /\ WiderThanTrigger(image.width)
    /\ \E out \in CodecSizes :
          Stage("resize", out, ResizedWidth(image.width, ResizeRequest),
                AfterToBuffer(image.extension, out))

\* sharp(imagePath).toBuffer()
PassThrough ==
    /\ InPass /\ pc = "toBuffer"
    /\ ~WiderThanTrigger(image.width)
    /\ \E out \in CodecSizes \cup {disk[image.path].size} :
          Stage("read", out, image.width, AfterToBuffer(image.extension, out))

\* the first .jpeg({ quality: 80 }) or .png({ compressionLevel: 9 })
Encode1 ==
    /\ InPass /\ pc = "encode1"
    /\ \E out \in CodecSizes :
          Stage(FirstStage(image.extension), out, BufferWidth,
                AfterEncode1(image.extension, out))

\* the nested .jpeg({ quality: 60 }) or .png({ compressionLevel: 9 })
Encode2 ==
    /\ InPass /\ pc = "encode2"
    /\ \E out \in CodecSizes :
          Stage(SecondStage(image.extension), out, BufferWidth, "toFile")

\* a catch that also removes the file it failed on
CatchError_Unlinks(st) ==
    /\ log' = log \o <<LogEntry(image.path, "Error compressing", st),
                       LogEntry(image.path, "Error compressing", st)>>
    /\ idx' = idx + 1
    /\ pc' = "loop"
    /\ data' = <<>>
    /\ ops' = <<>>
    /\ disk' = [disk EXCEPT ![image.path] = [content |-> "removed", size |-> 0]]
    /\ UNCHANGED <<scanVars, tree, parent, fmt, result, phase, images, opened>>

\* the loop without its try block: the error of compressImage leaves
\* compressImagesFromJson and the remaining records are never visited
CatchError_Rethrows(st) ==
    /\ log' = Append(log, LogEntry(image.path, "Error compressing", st))
    /\ phase' = "done"
    /\ pc' = "idle"
    /\ data' = <<>>
    /\ ops' = <<>>
    /\ UNCHANGED <<scanVars, tree, parent, fmt, result, images, idx, disk, opened>>

\* The catch of compressImage logs and rethrows; the catch inside the loop
\* of compressImagesFromJson logs, and the loop goes on.
CatchError(st) ==
    /\ log' = log \o <<LogEntry(image.path, "Error compressing", st),
                       LogEntry(image.path, "Error compressing", st)>>
    /\ idx' = idx + 1
    /\ pc' = "loop"
    /\ data' = <<>>
    /\ ops' = <<>>
    /\ UNCHANGED <<scanVars, tree, parent, fmt, result, phase, images, disk, opened>>

\* a toBuffer() of the ladder rejects
TransformFails ==
    /\ InPass /\ pc \in {"toBuffer", "encode1", "encode2"}
    /\ CatchError(pc)

\* sharp(data).toFile(imagePath) rejects before the file is opened
ToFileFailsEarly ==
    /\ InPass /\ pc = "toFile"
    /\ CatchError("toFile")

\* what toFile does to the file at the path when it starts to write
OpenForWriting(d, p) == [d EXCEPT ![p] = [content |-> "partial", size |-> 0]]

\* sharp(data).toFile(imagePath) opens the original path and truncates it
ToFileOpens ==
    /\ InPass /\ pc = "toFile"
    /\ disk' = OpenForWriting(disk, image.path)
    /\ opened' = opened \cup {image.path}
    /\ pc' = "writing"
    /\ UNCHANGED <<scanVars, tree, parent, fmt, result, phase, images, idx, data, ops, log>>

\* sharp(data).toFile(imagePath) rejects while it writes
ToFileFailsMidway ==
    /\ InPass /\ pc = "writing"
    /\ CatchError("toFile")

\* toFile resolves; fs.statSync(imagePath).size is returned and logged
ToFileDone ==
    /\ InPass /\ pc = "writing"
    /\ \E out \in CodecSizes \cup {data[1]} :
          /\ disk' = [disk EXCEPT ![image.path] = [content |-> "final", size |-> out]]
          /\ log' = Append(log, LogEntry(image.path, "Compressed", "none"))
    /\ idx' = idx + 1
    /\ pc' = "loop"
    /\ data' = <<>>
    /\ ops' = <<>>
    /\ UNCHANGED <<scanVars, tree, parent, fmt, result, phase, images, opened>>

\* ------------------------------------------------------------ specification
Scan ==
    \/ StartScan
    \/ StatFails
    \/ EnterDirectory
    \/ ReaddirFails
    \/ CollectImage
    \/ ProbeFails
    \/ IgnoreEntry
    \/ ReturnFromDirectory
    \/ SaveImages

Pass ==
    \/ ReadJson
    \/ SkipImage
    \/ BeginCompress
    \/ FinishPass
    \/ Resize
    \/ PassThrough
    \/ Encode1
    \/ Encode2
    \/ TransformFails
    \/ ToFileFailsEarly
    \/ ToFileOpens
    \/ ToFileFailsMidway
    \/ ToFileDone

Next == Scan \/ Pass

Spec == Init /\ [][Next]_vars

\* Every codec and file system call settles, and the event loop then runs
\* the continuation that awaits it.
FairSpec == Spec /\ WF_vars(Next)

\* ------------------------------------------------- formatSize on its own
\* The byte counts formatSize is called on: around 0 and the three
\* thresholds, and some inside each range (1152 = 1.125 KB is a rounding tie).
SampleSizes ==
    {b + d : b \in {KiB, MiB, GiB}, d \in (0 - FormatOffset)..FormatOffset}
    \cup 0..FormatOffset
    \cup {500, 1152, 1536, 256003, 2097152, 1084479242}

FormatInit ==
    /\ tree = [n \in Nodes |-> TextFile]
    /\ parent = [n \in Nodes |-> Root]
    /\ disk = [n \in Nodes |-> [content |-> "original", size |-> tree[n].size]]
    /\ opened = {}
    /\ phase = "init"
    /\ stack = <<>>
    /\ fileList = <<>>
    /\ images = <<>>
    /\ idx = 0
    /\ pc = "idle"
    /\ data = <<>>
    /\ ops = <<>>
    /\ log = <<>>
    /\ result = "pending"
    /\ \E n \in SampleSizes : fmt = [size |-> n, collector |-> <<>>, compressor |-> <<>>]

\* this.formatSize(stat.size) in the collector
CollectorFormats ==
    /\ fmt.collector = <<>>
    /\ fmt' = [fmt EXCEPT !.collector = <<formatSize(fmt.size)>>]
    /\ UNCHANGED <<tree, parent, result, disk, opened, phase, stack, fileList, images, idx, pc, data, ops, log>>

\* this.formatSize(newSize) in the compressor
CompressorFormats ==
    /\ fmt.compressor = <<>>
    /\ fmt' = [fmt EXCEPT !.compressor = <<DynamicCompressImage_formatSize(fmt.size)>>]
    /\ UNCHANGED <<tree, parent, result, disk, opened, phase, stack, fileList, images, idx, pc, data, ops, log>>

FormatNext == CollectorFormats \/ CompressorFormats

FormatSpec == FormatInit /\ [][FormatNext]_vars

TypeOK ==
    /\ phase \in {"init", "scan", "scanAborted", "scanned", "saved", "pass", "done"}
    /\ pc \in {"idle", "loop", "toBuffer", "encode1", "encode2", "toFile", "writing"}
    /\ opened \subseteq Nodes
    /\ Len(data) <= 1


\* ------------------------------------------------------------- vocabulary
AfterScan  == phase \in {"scanned", "saved", "pass", "done"}
PassBegun  == phase \in {"pass", "done"}
Original(n) == [content |-> "original", size |-> tree[n].size]

\* the record of images[i] has been through the if of the loop
Decided(i) == PassBegun /\ (i < idx \/ (i = idx /\ pc # "loop"))
LoggedAs(p, m) == \E k \in 1..Len(log) : log[k].path = p /\ log[k].msg = m
SkippedRecord(i) == LoggedAs(images[i].path, "Skipped")
TransformStages == {"toBuffer", "encode1", "encode2"}
TransformFailed(p) ==
    \E k \in 1..Len(log) :
        log[k].path = p /\ log[k].msg = "Error compressing" /\ log[k].stage \in TransformStages

\* the format of a record, by its extension in any letter case
JpegRecord(r) == toLowerCase(r.extension) \in {DotJpg, DotJpeg}
PngRecord(r)  == toLowerCase(r.extension) = DotPng

\* compressImage is running for images[idx] and its ladder is over
LadderOver == InPass /\ pc \in {"toFile", "writing"}
\* the re-encode operations applied so far, after the first toBuffer
Reencodes == SubSeq(ops, 2, Len(ops))
Applied(name) == \E k \in 1..Len(Reencodes) : Reencodes[k].op = name

\* the extensions of the allowlist in the letter cases the trees use
Allowlisted(ext) == ext \in {DotJpg, DotJpeg, DotPng, DotJPG, DotJPEG, DotPNG}
CatalogPaths == {fileList[i].path : i \in 1..Len(fileList)}
\* every directory on the way from the root to n can be stat'ed and listed
RECURSIVE Reachable(_)
Reachable(n) ==
    IF parent[n] = Root THEN TRUE
    ELSE tree[parent[n]].statOK /\ tree[parent[n]].listOK /\ Reachable(parent[n])
NoDuplicatePaths ==
    \A i, j \in 1..Len(fileList) : fileList[i].path = fileList[j].path => i = j

\* ------------------------------------------------------------------ claims

\* C1: a record is selected for compression if and only if its exact byte
\* size is strictly greater than the budget.
C1_SelectedIffOverBudget ==
    \A i \in 1..Len(images) :
        Decided(i) => (~SkippedRecord(i) <=> fileList[i].sizeInBytes > MaxSizeBytes)

\* C2: a file whose byte size is within the budget is never opened for
\* writing and keeps its content.
C2_NoWriteWithinBudget ==
    \A n \in Nodes :
        tree[n].size <= MaxSizeBytes => n \notin opened /\ disk[n] = Original(n)

\* C3: the file at a path always holds either the complete original content
\* or the complete final buffer, never a partial or empty file.
C3_CommitIsAtomic ==
    \A n \in Nodes : disk[n].content \in {"original", "final"}

\* C4: when a resize or encode operation fails for a record, its path is
\* never written, the file keeps its original content, and the loop has
\* moved on past the record.
C4_TransformFailureLeavesFile ==
    \A i \in 1..Len(images) :
        TransformFailed(images[i].path) =>
            /\ images[i].path \notin opened
            /\ disk[images[i].path] = Original(images[i].path)
            /\ PassBegun /\ idx > i

C4_Witness ==
    \E i \in 1..Len(images) :
        /\ TransformFailed(images[i].path)
        /\ \E k \in 1..Len(log) : log[k].path = images[i].path /\ log[k].stage = "encode2"
        /\ idx = i + 1 /\ pc = "toBuffer"

\* C5: after a successful commit the file is no larger than the original.
C5_NeverLarger ==
    \A n \in Nodes : disk[n].content = "final" => disk[n].size <= tree[n].size

\* C6: once the pass has begun it runs to completion, and by then every
\* record of the catalog has been compressed, has failed or was skipped.
AllHandled ==
    \A i \in 1..Len(images) :
        \/ LoggedAs(images[i].path, "Compressed")
        \/ LoggedAs(images[i].path, "Error compressing")
        \/ LoggedAs(images[i].path, "Skipped")
C6_PassCompletes == InPass ~> (phase = "done" /\ AllHandled)

C6_Witness ==
    /\ phase = "done" /\ Len(images) >= 2
    /\ \E i, j \in 1..Len(images) :
          /\ i < j
          /\ LoggedAs(images[i].path, "Error compressing")
          /\ LoggedAs(images[j].path, "Compressed")

C8_JpegLadder ==
    (LadderOver /\ JpegRecord(image)) =>
        /\ ops[1].op \in {"resize", "read"}
        /\ Applied("jpeg80") <=> OverBudget(ops[1].out)
        /\ Applied("jpeg80") => Reencodes[1].op = "jpeg80"
        /\ Applied("jpeg60") <=> (Applied("jpeg80") /\ OverBudget(Reencodes[1].out))
        /\ Applied("jpeg60") => (Len(Reencodes) = 2 /\ Reencodes[2].op = "jpeg60")

\* C9 as stated: after the scan the catalog holds exactly one record for each
\* regular file whose extension is on the allowlist in any letter case.
C9_CatalogComplete ==
    AfterScan =>
        /\ CatalogPaths = {n \in Nodes : tree[n].kind = "file" /\ Allowlisted(tree[n].ext)}
        /\ NoDuplicatePaths

\* C9 amended: after the scan the catalog holds exactly one record for each
\* regular file, at any depth, whose extension is on the allowlist in any
\* letter case and whose dimension probe succeeded; no two records share a
\* path and no directory or other non-regular file is a record.
C9_CatalogOfProbedImages ==
    AfterScan =>
        /\ CatalogPaths =
              {n \in Nodes : tree[n].kind = "file" /\ Allowlisted(tree[n].ext) /\ tree[n].probeOK}
        /\ NoDuplicatePaths
        /\ \A n \in CatalogPaths : tree[n].kind = "file"

C9_Witness ==
    /\ phase = "scanned"
    /\ \E n \in CatalogPaths : parent[n] # Root /\ tree[n].ext \in {DotJPG, DotPNG}
    /\ \E n \in CatalogPaths : parent[n] = Root

\* C10: an unreadable directory entry never stops the scan, and once the scan
\* is over the catalog holds every matching file that can be reached and read.
C10_ScanSurvivesUnreadableEntry ==
    /\ phase # "scanAborted"
    /\ AfterScan =>
          \A n \in Nodes :
              (Reachable(n) /\ tree[n].statOK /\ tree[n].kind = "file"
                  /\ Allowlisted(tree[n].ext) /\ tree[n].probeOK)
              => n \in CatalogPaths


\* C11: a file whose dimension probe fails never stops the scan (only an
\* entry that cannot be stat'ed or listed does), it is left out of the
\* catalog, and every other matching file, before or after it, is cataloged.
Matching(n) == tree[n].kind = "file" /\ Allowlisted(tree[n].ext)
ProbeFailure(n) == Matching(n) /\ tree[n].statOK /\ ~tree[n].probeOK
TraversalFailure(n) == ~tree[n].statOK \/ (tree[n].kind = "dir" /\ ~tree[n].listOK)
C11_ProbeFailureSkipsOneFile ==
    /\ phase = "scanAborted" => \E n \in Nodes : TraversalFailure(n)
    /\ (AfterScan /\ \E n \in Nodes : ProbeFailure(n)) =>
          \A m \in Nodes :
              /\ ProbeFailure(m) => m \notin CatalogPaths
              /\ (Matching(m) /\ ~ProbeFailure(m)) => m \in CatalogPaths

C11_Witness ==
    /\ phase = "scanned"
    /\ \E n, m \in Nodes : n < m /\ ProbeFailure(n) /\ m \in CatalogPaths

\* C12: a pass in which a record failed ends with a result other than the
\* one of a pass in which none failed.
AnyRecordFailed ==
    \E i \in 1..Len(images) : LoggedAs(images[i].path, "Error compressing")
C12_ResultReflectsFailure ==
    phase = "done" => (AnyRecordFailed <=> result # "fulfilled")


\* C13: formatSize picks the unit by the thresholds 1024, 1024^2, 1024^3,
\* prints the byte count itself below 1024 and otherwise the count divided by
\* the unit to two decimals; 0, 1024, 1048576 and 1073741824 give "0 Bytes",
\* "1.00 KB", "1.00 MB" and "1.00 GB"; both copies return the same string.
Abs(x) == IF x < 0 THEN 0 - x ELSE x
Hundredths(str) == str.whole * 100 + str.frac[1] * 10 + str.frac[2]
\* hr hundredths is r / den rounded to the nearest hundredth
NearestHundredth(hr, r, den) ==
    LET d == den \div 1024
        u == (100 * r) \div 1024
        v == (100 * r) % 1024
        x == hr * d - u
    IN  /\ hr >= 0 /\ hr <= 100
        /\ x >= 0 - d /\ x <= d
        /\ Abs(x * 1024 - v) <= den \div 2
TwoDecimals(str, size, den, u) ==
    /\ str.unit = u
    /\ Len(str.frac) = 2 /\ \A i \in 1..2 : str.frac[i] \in 0..9
    /\ NearestHundredth(Hundredths(str) - 100 * (size \div den), size % den, den)
WellFormatted(size, str) ==
    IF size < 1024 THEN str = [whole |-> size, frac |-> <<>>, unit |-> "Bytes"]
    ELSE IF size < 1048576 THEN TwoDecimals(str, size, 1024, "KB")
    ELSE IF size < 1073741824 THEN TwoDecimals(str, size, 1048576, "MB")
    ELSE TwoDecimals(str, size, 1073741824, "GB")
One(u) == [whole |-> 1, frac |-> <<0, 0>>, unit |-> u]
FormatResults == {fmt.collector[i] : i \in 1..Len(fmt.collector)}
                    \cup {fmt.compressor[i] : i \in 1..Len(fmt.compressor)}
C13_FormatSize ==
    /\ \A str \in FormatResults :
          /\ WellFormatted(fmt.size, str)
          /\ fmt.size = 0 => str = [whole |-> 0, frac |-> <<>>, unit |-> "Bytes"]
          /\ fmt.size = 1024 => str = One("KB")
          /\ fmt.size = 1048576 => str = One("MB")
          /\ fmt.size = 1073741824 => str = One("GB")
    /\ (fmt.collector # <<>> /\ fmt.compressor # <<>>) => fmt.collector = fmt.compressor

C13_Witness ==
    /\ fmt # <<>>
    /\ fmt.size = 1073741824
    /\ fmt.collector = <<One("GB")>> /\ fmt.compressor = <<One("GB")>>


\* C14: no re-encode is applied to a buffer that is within the budget; once
\* the buffer is within the budget the next operation is the commit.
InFlight == InPass /\ ops # <<>>
C14_EarlyStop ==
    InFlight =>
        /\ \A k \in 2..Len(ops) : ops[k - 1].out > MaxSizeBytes
        /\ pc \in {"encode1", "encode2"} => data[1] > MaxSizeBytes
        /\ data[1] <= MaxSizeBytes => pc \in {"toFile", "writing"}

C14_Witness ==
    /\ InFlight /\ pc = "toFile" /\ IsJpeg(image.extension)
    /\ Len(ops) = 2
    /\ ops[1].out > MaxSizeBytes /\ ops[2].out <= MaxSizeBytes

\* C15: the resize is requested exactly when the record's width is greater
\* than 1500 (1500 itself or no width: the file is read as it is); the request
\* is for width 1400 without enlargement, and the buffer is never wider than
\* the source.
C15_ResizeStage ==
    InFlight =>
        /\ ops[1].op = "resize" <=> \E w \in image.width : w > 1500
        /\ ops[1].op # "resize" => ops[1].op = "read"
        /\ ops[1].op = "resize" =>
              /\ ops[1].req = [width |-> 1400, withoutEnlargement |-> TRUE]
              /\ \A bw \in ops[1].width : bw <= 1400
        /\ \A k \in 1..Len(ops) :
              \A bw \in ops[k].width : \A sw \in tree[image.path].width : bw <= sw

C15_Witness ==
    /\ InFlight /\ pc = "toFile"
    /\ image.width = {2000}
    /\ ops[1].op = "resize" /\ BufferWidth = {1400}

\* C16: records are handled in catalog order, one at a time: everything done
\* for a record is done before anything is done for the next one.
IndexOf(p) == CHOOSE j \in 1..Len(images) : images[j].path = p
Untouched(j) == images[j].path \notin opened /\ disk[images[j].path] = Original(images[j].path)
C16_OneRecordAtATime ==
    PassBegun =>
        /\ \A k \in 1..Len(log) :
              \E j \in 1..Len(images) : j < idx /\ images[j].path = log[k].path
        /\ \A k, l \in 1..Len(log) : k < l => IndexOf(log[k].path) <= IndexOf(log[l].path)
        /\ \A j \in 1..Len(images) :
              /\ j < idx => \E k \in 1..Len(log) : log[k].path = images[j].path
              /\ j > idx => Untouched(j)
              /\ (j = idx /\ pc = "loop") => Untouched(j)
        /\ (ops # <<>> \/ pc \notin {"loop", "idle"}) => idx \in 1..Len(images)

C16_Witness ==
    /\ InPass /\ Len(images) = 3 /\ idx = 2 /\ pc = "encode1"
    /\ LoggedAs(images[1].path, "Compressed")
    /\ Untouched(3)

\* C17: a record whose extension is on the allowlist in any letter case and
\* whose buffer is over budget gets the first re-encode of its format.
C17_LadderIgnoresCase ==
    (LadderOver /\ (JpegRecord(image) \/ PngRecord(image)) /\ ops[1].out > MaxSizeBytes) =>
        /\ Len(Reencodes) >= 1
        /\ Reencodes[1].op = (IF JpegRecord(image) THEN "jpeg80" ELSE "png9")

====
